---- MODULE Spec2Model ----
(***************************************************************************)
(* Clerk JWT authentication middleware (server/app/app/middleware.py):     *)
(* ClerkSDK.get_jwks, ClerkSDK.fetch_user_info and                         *)
(* JWTAuthenticationMiddleware.authenticate / decode_jwt, run by several   *)
(* concurrent requests over one shared cache and one shared user store.    *)
(*                                                                         *)
(* Every statement that reads or writes the cache or the store, and every  *)
(* outbound HTTP call, is one atomic step of the request that runs it; the *)
(* purely local statements around it belong to the same step.  A local     *)
(* variable that is not read again is reset to None, and so is the whole   *)
(* frame of a request when authenticate returns or raises.                 *)
(* Cache eviction and expiry are not modelled: the cache only grows.       *)
(***************************************************************************)
EXTENDS Integers, Sequences, FiniteSets, TLC

\* ------------------------------------------------------------------ bounds
NumReq == 2          \* requests the framework runs, concurrently or in sequence
NumSubjects == 2     \* distinct provider user ids that tokens carry

Requests == 1..NumReq
Subjects == 1..NumSubjects

\* ------------------------------------------------------------- Python values
None == [none |-> TRUE]

\* payload.get("sub") of a payload without a "sub" claim
NoSub == 0

\* an Authorization header whose value is the empty string, by the pieces
\* "".split(" ") cuts it into
EmptyHeader == [split |-> <<"">>]

\* Python truthiness of the values the code tests with `if x` / `if not x`:
\* a header is falsy when it is None or the empty string, a cached JWKS
\* document or a cached user-info body only when it is None, a subject only
\* when the payload has none
Truthy(v) == v # None /\ v # EmptyHeader

\* ------------------------------------------------------------------ inputs
Keys == {"k1", "k2"}

\* the key the provider signs its tokens with; the published key set may
\* list it first or second
SigningKeys == {"k1"}

\* JWKS documents the provider publishes: the same two keys in either order
KeySets == {[keys |-> <<"k1", "k2">>], [keys |-> <<"k2", "k1">>]}

\* requests.get(".../.well-known/jwks.json")
JwksResponses ==
    {[status_code |-> 200, json |-> ks] : ks \in KeySets}
        \cup {[status_code |-> 500, json |-> None]}

\* Bodies of GET /users/{user_id}: a user with two e-mail addresses and a
\* user with none
UserInfoData ==
    { [email_addresses |-> <<[email_address |-> "a@b.com"],
                             [email_address |-> "c@d.com"]>>,
       first_name |-> "A", last_name |-> "B", last_sign_in_at |-> 1700],
      [email_addresses |-> <<>>,
       first_name |-> "E", last_name |-> "F", last_sign_in_at |-> 1900] }

\* requests.get(f"{CLERK_API_URL}/users/{user_id}", ...)
UserInfoResponses ==
    {[status_code |-> 200, json |-> d] : d \in UserInfoData}
        \cup {[status_code |-> 404, json |-> None]}

\* A bearer token, by what jwt.decode can tell about it: whether it parses as
\* a JWS, its header algorithm, the key that signed it, the state of its
\* registered claims (fine, expired, or carrying an audience nobody asked
\* for) and its subject.
Token(f, a, k, c, s) == [form |-> f, alg |-> a, sig |-> k, claims |-> c, sub |-> s]
MalformedToken == Token("malformed", "none", "none", "none", NoSub)
WrongAlgToken == Token("jws", "HS256", "k1", "ok", 1)
AudienceToken == Token("jws", "RS256", "k1", "aud", 1)
ExpiredTokens == {Token("jws", "RS256", k, "expired", 1) : k \in SigningKeys}
GoodTokens ==
    {Token("jws", "RS256", k, "ok", s) :
        k \in SigningKeys, s \in Subjects \cup {NoSub}}
Tokens ==
    {MalformedToken, WrongAlgToken, AudienceToken} \cup ExpiredTokens
        \cup GoodTokens

\* request.headers.get("Authorization"): None without the header, else the
\* header by the pieces auth_header.split(" ") cuts it into
Headers ==
    {None, EmptyHeader, [split |-> <<"Bearer">>]}
        \cup {[split |-> <<"Bearer", t>>] : t \in Tokens}

\* ----------------------------------------------------------------- results
Return(v) == [kind |-> "return", value |-> v, exc |-> "none", detail |-> "none"]
Raise(e, d) == [kind |-> "raise", value |-> None, exc |-> e, detail |-> d]
AuthenticationFailed(d) == Raise("AuthenticationFailed", d)
Running == [kind |-> "running", value |-> None, exc |-> "none", detail |-> "none"]

\* the pair (user, None) authenticate returns
Identity(u) == [user |-> u, auth |-> None]

\* ------------------------------------------------------------------- state
VARIABLES
    cache,       \* django.core.cache: key -> value or None
    users,       \* rows of the User table
    profiles,    \* rows of the Profile table
    activities,  \* rows of the UserActivity table
    pc,          \* where each request stands
    local,       \* the local variables of each request, by their names
    result       \* what authenticate returned or raised

vars == <<cache, users, profiles, activities, pc, local, result>>

store == <<users, profiles, activities>>

CACHE_KEY == <<"jwks_data">>
UserInfoKey(uid) == <<"user_info_", uid>>
CacheKeys == {CACHE_KEY} \cup {UserInfoKey(s) : s \in Subjects}

\* the frame of a request that has not begun, or has ended
NoLocals ==
    [auth_header |-> None, token |-> None, jwks_data |-> None,
     user_id |-> NoSub, response |-> None, info |-> None, found |-> FALSE,
     user |-> None, created |-> FALSE]

\* the frame of a request that came in with the Authorization header h
Incoming(h) == [NoLocals EXCEPT !.auth_header = h]

Init ==
    /\ cache = [k \in CacheKeys |-> None]
    /\ users = {}
    /\ profiles = {}
    /\ activities = {}
    /\ pc = [r \in Requests |-> "idle"]
    /\ \E h \in [Requests -> Headers] :
           local = [r \in Requests |-> Incoming(h[r])]
    /\ result = [r \in Requests |-> Running]

\* authenticate returns or raises res: the request ends.
Finish(r, res) ==
    /\ pc' = [pc EXCEPT ![r] = "done"]
    /\ result' = [result EXCEPT ![r] = res]
    /\ local' = [local EXCEPT ![r] = NoLocals]

\* The request goes on at label with the frame f.
Goto(r, label, f) ==
    /\ pc' = [pc EXCEPT ![r] = label]
    /\ local' = [local EXCEPT ![r] = f]
    /\ UNCHANGED result

\* ------------------------------------------------------------ jwt.decode
\* PyJWT's exception classes, each with its base class
BaseOf(e) ==
    CASE e = "ExpiredSignatureError" -> "InvalidTokenError"
      [] e = "InvalidAudienceError" -> "InvalidTokenError"
      [] e = "InvalidAlgorithmError" -> "InvalidTokenError"
      [] e = "DecodeError" -> "InvalidTokenError"
      [] e = "InvalidSignatureError" -> "DecodeError"
      [] OTHER -> "Exception"

IsInstance(e, cls) ==
    \/ e = cls
    \/ BaseOf(e) = cls
    \/ BaseOf(BaseOf(e)) = cls

Payload(tok) == [sub |-> tok.sub]
Decoded(p) == [exc |-> "none", payload |-> p]
Throws(e) == [exc |-> e, payload |-> None]

\* jwt.decode as it would be with the signature left unverified
JwtDecodeUnverified(tok, public_key) ==
    IF tok.form # "jws" THEN Throws("DecodeError")
    ELSE IF tok.alg # "RS256" THEN Throws("InvalidAlgorithmError")
    ELSE IF tok.claims = "expired" THEN Throws("ExpiredSignatureError")
    ELSE IF tok.claims = "aud" THEN Throws("InvalidAudienceError")
    ELSE Decoded(Payload(tok))

\* jwt.decode as it would be if the claims were validated before the signature
JwtDecodeExpiryFirst(tok, public_key) ==
    IF tok.form # "jws" THEN Throws("DecodeError")
    ELSE IF tok.alg # "RS256" THEN Throws("InvalidAlgorithmError")
    ELSE IF tok.claims = "expired" THEN Throws("ExpiredSignatureError")
    ELSE IF tok.sig # public_key THEN Throws("InvalidSignatureError")
    ELSE IF tok.claims = "aud" THEN Throws("InvalidAudienceError")
    ELSE Decoded(Payload(tok))

\* jwt.decode(token, public_key, algorithms=["RS256"],
\*            options={"verify_signature": True})
\* parses the token, checks the header algorithm, verifies the signature and
\* only then validates the registered claims of the payload.
JwtDecode(tok, public_key) ==
    IF tok.form # "jws" THEN Throws("DecodeError")
    ELSE IF tok.alg # "RS256" THEN Throws("InvalidAlgorithmError")
    ELSE IF tok.sig # public_key THEN Throws("InvalidSignatureError")
    ELSE IF tok.claims = "expired" THEN Throws("ExpiredSignatureError")
    ELSE IF tok.claims = "aud" THEN Throws("InvalidAudienceError")
    ELSE Decoded(Payload(tok))

\* the except clauses of decode_jwt, in their order
JwtFailure(e) ==
    IF IsInstance(e, "ExpiredSignatureError")
        THEN AuthenticationFailed("Token has expired.")
    ELSE IF IsInstance(e, "DecodeError")
        THEN AuthenticationFailed("Token decode error.")
    ELSE IF IsInstance(e, "InvalidTokenError")
        THEN AuthenticationFailed("Invalid token.")
    ELSE Raise(e, "uncaught")

\* decode_jwt as it would be if it took the last entry of the key set
PublicKeyLast(jwks) == jwks.keys[Len(jwks.keys)]

\* RSAAlgorithm.from_jwk(jwks_data["keys"][0])
PublicKey(jwks) == jwks.keys[1]

\* get_jwks as it would be if it never trusted the cache
JwksMissAlways(cached) == TRUE

\* get_jwks, line 74: `if not jwks_data`
JwksMiss(cached) == ~Truthy(cached)

\* ------------------------------------------------------- fetch_user_info
\* datetime.datetime.fromtimestamp(ms / 1000, tz=pytz.UTC)
FromTimestamp(ms) ==
    [second |-> ms \div 1000, microsecond |-> (ms % 1000) * 1000, tz |-> "UTC"]

\* The dict fetch_user_info builds from a user-info body; [0] of an empty
\* email_addresses list raises IndexError.
ParseUserInfo(data) ==
    IF Len(data.email_addresses) = 0
        THEN [exc |-> "IndexError", value |-> None]
        ELSE [exc |-> "none",
              value |-> [email_address |-> data.email_addresses[1].email_address,
                         first_name |-> data.first_name,
                         last_name |-> data.last_name,
                         last_login |-> FromTimestamp(data.last_sign_in_at)]]

\* the fallback record as it would be with placeholder texts
ZeroUserInfoPlaceholder ==
    [email_address |-> "unknown", first_name |-> "unknown",
     last_name |-> "unknown", last_login |-> None]

\* the record fetch_user_info returns on a status other than 200
ZeroUserInfo ==
    [email_address |-> "", first_name |-> "", last_name |-> "",
     last_login |-> None]

\* ------------------------------------------------------------ user store
\* the lookup as it would be if it never found a row
UserLookupBlind(rows, username) == [exc |-> "DoesNotExist", row |-> None]

\* User.objects.get(username=user_id)
UserLookup(rows, username) ==
    LET found == {u \in rows : u.username = username}
    IN  IF found = {} THEN [exc |-> "DoesNotExist", row |-> None]
        ELSE IF Cardinality(found) > 1
            THEN [exc |-> "MultipleObjectsReturned", row |-> None]
        ELSE [exc |-> "none", row |-> CHOOSE u \in found : TRUE]

\* the store as it would be without the unique constraint on username
UniqueViolationOff(rows, username) == FALSE

\* username = models.CharField(max_length=150, unique=True): an insert of a
\* username some row already has is rejected with IntegrityError
UniqueViolation(rows, username) == \E u \in rows : u.username = username

\* the primary key the store gives the next row of a table
NextPk(rows) == Cardinality(rows) + 1

\* the create call as it would be with first and last name exchanged
UserRowSwapped(rows, username, i) ==
    [id |-> Cardinality(rows) + 1, username |-> username,
     first_name |-> i.last_name, last_name |-> i.first_name,
     email |-> i.email_address]

UserRow(rows, username, i) ==
    [id |-> NextPk(rows), username |-> username, first_name |-> i.first_name,
     last_name |-> i.last_name, email |-> i.email_address]

DependentRow(rows, u) == [id |-> NextPk(rows), user |-> u.id]

\* the rows of a dependent table that belong to user u
Owned(rows, u) == {p \in rows : p.user = u.id}

\* ------------------------------------------------------ the bearer token
\* authenticate as it would be if a request without the header were refused
BearerTokenRequired(auth_header) ==
    IF ~Truthy(auth_header) \/ Len(auth_header.split) < 2
        THEN [ended |-> TRUE, token |-> None,
              res |-> AuthenticationFailed("Bearer token not provided.")]
    ELSE [ended |-> FALSE, res |-> Running, token |-> auth_header.split[2]]

\* authenticate as it would be if a header without a token were let through
\* as an anonymous request
BearerTokenOptional(auth_header) ==
    IF ~Truthy(auth_header) \/ Len(auth_header.split) < 2
        THEN [ended |-> TRUE, res |-> Return(None), token |-> None]
    ELSE [ended |-> FALSE, res |-> Running, token |-> auth_header.split[2]]

\* authenticate, lines 91-98: what the header read yields. A falsy header
\* ends the request with None, a header that split(" ") leaves in one piece
\* ends it with AuthenticationFailed (the IndexError of [1], caught), any
\* other header gives its second piece as the token.
BearerToken(auth_header) ==
    IF ~Truthy(auth_header)
        THEN [ended |-> TRUE, res |-> Return(None), token |-> None]
    ELSE IF Len(auth_header.split) < 2
        THEN [ended |-> TRUE, token |-> None,
              res |-> AuthenticationFailed("Bearer token not provided.")]
    ELSE [ended |-> FALSE, res |-> Running, token |-> auth_header.split[2]]

\* get_jwks as it would be if the status error of the response were raised
\* as it is
JwksFetchFailureRaw == Raise("HTTPError", "uncaught")

\* get_jwks, line 80: what a JWKS answer other than 200 raises
JwksFetchFailure == AuthenticationFailed("Failed to fetch JWKS.")

\* --------------------------------------------------------------- actions
\* authenticate, lines 91-100, and get_jwks, lines 73-74: read the header,
\* cut the token out of it, then read the key set from the cache
Authenticate(r) ==
    /\ pc[r] = "idle"
    /\ LET b == BearerToken(local[r].auth_header)
           f == [local[r] EXCEPT !.auth_header = None, !.token = b.token,
                                 !.jwks_data = cache[CACHE_KEY]]
       IN  IF b.ended THEN Finish(r, b.res)
           ELSE IF JwksMiss(f.jwks_data) THEN Goto(r, "jwks_fetch", f)
           ELSE Goto(r, "decode", f)
    /\ UNCHANGED <<cache, store>>

\* get_jwks, lines 75-81: the HTTP GET of the JWKS document and the cache
\* write of its body
GetJwksFetch(r) ==
    /\ pc[r] = "jwks_fetch"
    /\ \E resp \in JwksResponses :
        IF resp.status_code = 200
            THEN /\ cache' = [cache EXCEPT ![CACHE_KEY] = resp.json]
                 /\ Goto(r, "decode", [local[r] EXCEPT !.jwks_data = resp.json])
            ELSE /\ Finish(r, JwksFetchFailure)
                 /\ UNCHANGED cache
    /\ UNCHANGED store

\* decode_jwt as it would be if a payload without a subject were refused
DecodeJwtSubjectRequired(r) ==
    /\ pc[r] = "decode"
    /\ LET d == JwtDecode(local[r].token, PublicKey(local[r].jwks_data))
       IN  IF d.exc # "none" THEN Finish(r, JwtFailure(d.exc))
           ELSE IF d.payload.sub = NoSub
               THEN Finish(r, AuthenticationFailed("Invalid token."))
           ELSE Goto(r, "user_get",
                     [local[r] EXCEPT !.user_id = d.payload.sub,
                                      !.token = None, !.jwks_data = None])
    /\ UNCHANGED <<cache, store>>

\* decode_jwt, lines 111-131 and 152: verify the token, read its subject
DecodeJwt(r) ==
    /\ pc[r] = "decode"
    /\ LET d == JwtDecode(local[r].token, PublicKey(local[r].jwks_data))
       IN  IF d.exc # "none" THEN Finish(r, JwtFailure(d.exc))
           ELSE IF d.payload.sub = NoSub THEN Finish(r, Return(None))
           ELSE Goto(r, "user_get",
                     [local[r] EXCEPT !.user_id = d.payload.sub,
                                      !.token = None, !.jwks_data = None])
    /\ UNCHANGED <<cache, store>>

\* decode_jwt, lines 134-136 and 145-151: the lookup; a user that is found is
\* returned at once, created staying False
UserGet(r) ==
    /\ pc[r] = "user_get"
    /\ LET l == UserLookup(users, local[r].user_id)
       IN  IF l.exc = "none" THEN Finish(r, Return(Identity(l.row)))
           ELSE IF l.exc = "DoesNotExist"
               THEN Goto(r, "fetch_user_info", local[r])
           ELSE Finish(r, Raise(l.exc, "uncaught"))
    /\ UNCHANGED <<cache, store>>

\* fetch_user_info, lines 34-44: the cache read and the cached answer
FetchUserInfoCacheGet(r) ==
    /\ pc[r] = "fetch_user_info"
    /\ LET user_info == cache[UserInfoKey(local[r].user_id)]
           parsed == ParseUserInfo(user_info)
       IN  IF ~Truthy(user_info) THEN Goto(r, "info_fetch", local[r])
           ELSE IF parsed.exc # "none"
               THEN Finish(r, Raise(parsed.exc, "uncaught"))
           ELSE Goto(r, "user_create",
                     [local[r] EXCEPT !.info = parsed.value, !.found = TRUE])
    /\ UNCHANGED <<cache, store>>

\* fetch_user_info, lines 46-69: the HTTP GET of the user; a 200 body is
\* cached, then the answer is built from it
FetchUserInfoHttp(r) ==
    /\ pc[r] = "info_fetch"
    /\ \E resp \in UserInfoResponses :
        IF resp.status_code = 200
            THEN /\ cache' = [cache EXCEPT ![UserInfoKey(local[r].user_id)] =
                                               resp.json]
                 /\ LET parsed == ParseUserInfo(resp.json)
                    IN  IF parsed.exc # "none"
                            THEN Finish(r, Raise(parsed.exc, "uncaught"))
                            ELSE Goto(r, "user_create",
                                      [local[r] EXCEPT !.response = resp,
                                                       !.info = parsed.value,
                                                       !.found = TRUE])
            ELSE /\ UNCHANGED cache
                 /\ Goto(r, "user_create",
                         [local[r] EXCEPT !.response = resp,
                                          !.info = ZeroUserInfo,
                                          !.found = FALSE])
    /\ UNCHANGED store

\* decode_jwt, lines 138-144: User.objects.create(...). The store may be
\* failing (fault), and it enforces the uniqueness of username.
UserCreate(r) ==
    /\ pc[r] = "user_create"
    /\ \E fault \in BOOLEAN :
        IF fault
            THEN Finish(r, Raise("OperationalError", "uncaught"))
                     /\ UNCHANGED users
        ELSE IF UniqueViolation(users, local[r].user_id)
            THEN Finish(r, Raise("IntegrityError", "uncaught"))
                     /\ UNCHANGED users
        ELSE LET row == UserRow(users, local[r].user_id, local[r].info)
             IN  /\ users' = users \cup {row}
                 /\ Goto(r, "profile_create",
                         [local[r] EXCEPT !.user = row, !.created = TRUE,
                                          !.info = None, !.found = FALSE])
    /\ UNCHANGED <<cache, profiles, activities>>

\* Profile.objects.create as it would be inside transaction.atomic(): a
\* failure takes the User row back
ProfileCreateAtomic(r) ==
    /\ pc[r] = "profile_create"
    /\ \E fault \in BOOLEAN :
        IF fault
            THEN /\ Finish(r, Raise("OperationalError", "uncaught"))
                 /\ users' = users \ {local[r].user}
                 /\ UNCHANGED profiles
            ELSE /\ profiles' =
                        profiles \cup {DependentRow(profiles, local[r].user)}
                 /\ Goto(r, "activity_create", local[r])
                 /\ UNCHANGED users
    /\ UNCHANGED <<cache, activities>>

\* decode_jwt, line 149: Profile.objects.create(user=user)
ProfileCreate(r) ==
    /\ pc[r] = "profile_create"
    /\ \E fault \in BOOLEAN :
        IF fault
            THEN Finish(r, Raise("OperationalError", "uncaught"))
                     /\ UNCHANGED profiles
            ELSE /\ profiles' =
                        profiles \cup {DependentRow(profiles, local[r].user)}
                 /\ Goto(r, "activity_create", local[r])
    /\ UNCHANGED <<cache, users, activities>>

\* decode_jwt, lines 150-151 and authenticate, lines 102-105:
\* UserActivity.objects.create(user=user), then the user is returned
ActivityCreate(r) ==
    /\ pc[r] = "activity_create"
    /\ \E fault \in BOOLEAN :
        IF fault
            THEN Finish(r, Raise("OperationalError", "uncaught"))
                     /\ UNCHANGED activities
            ELSE /\ activities' =
                        activities \cup {DependentRow(activities, local[r].user)}
                 /\ Finish(r, Return(Identity(local[r].user)))
    /\ UNCHANGED <<cache, users, profiles>>

\* one step of request r
Step(r) ==
    \/ Authenticate(r)
    \/ GetJwksFetch(r)
    \/ DecodeJwt(r)
    \/ UserGet(r)
    \/ FetchUserInfoCacheGet(r)
    \/ FetchUserInfoHttp(r)
    \/ UserCreate(r)
    \/ ProfileCreate(r)
    \/ ActivityCreate(r)

\* The framework's workers run the requests concurrently: any request may
\* take the next step.
Next == \E r \in Requests : Step(r)

Spec == Init /\ [][Next]_vars

\* The same requests run one after the other: a request steps only while no
\* other request is under way.
Alone(r) == \A q \in Requests \ {r} : pc[q] \in {"idle", "done"}

SeqNext ==
    \E r \in Requests :
        \/ Alone(r) /\ Authenticate(r)
        \/ Alone(r) /\ GetJwksFetch(r)
        \/ Alone(r) /\ DecodeJwt(r)
        \/ Alone(r) /\ UserGet(r)
        \/ Alone(r) /\ FetchUserInfoCacheGet(r)
        \/ Alone(r) /\ FetchUserInfoHttp(r)
        \/ Alone(r) /\ UserCreate(r)
        \/ Alone(r) /\ ProfileCreate(r)
        \/ Alone(r) /\ ActivityCreate(r)

SpecSeq == Init /\ [][SeqNext]_vars

Labels ==
    {"idle", "jwks_fetch", "decode", "user_get", "fetch_user_info",
     "info_fetch", "user_create", "profile_create", "activity_create", "done"}

TypeOK ==
    /\ pc \in [Requests -> Labels]
    /\ \A r \in Requests : local[r].auth_header \in Headers
    /\ \A r \in Requests : local[r].auth_header # None => pc[r] = "idle"
    /\ \A r \in Requests : local[r].token \in Tokens \cup {None}
    /\ \A r \in Requests : local[r].user_id \in Subjects \cup {NoSub}
    /\ \A r \in Requests : (result[r] = Running) = (pc[r] # "done")

\* ------------------------------------------------------------ properties
\* request r takes the step
Stepped(r) == pc'[r] # pc[r]

\* the labels of decode_jwt after the token has been verified
Provisioning ==
    {"user_get", "fetch_user_info", "info_fetch", "user_create",
     "profile_create", "activity_create"}

IsIdentity(res) == res.kind = "return" /\ res.value # None

StoreErrors == {"IntegrityError", "OperationalError"}

\* the token verifies against the first key of the key set: a well-formed
\* RS256 token, signed by that key, with valid registered claims
TokenVerifies(tok, jwks) ==
    /\ tok.form = "jws"
    /\ tok.alg = "RS256"
    /\ tok.sig = jwks.keys[1]
    /\ tok.claims = "ok"

\* C1: a request that missed the lookup and runs User.objects.create when a
\* row with its username exists (another request won the race) ends there,
\* with an uncaught store error - IntegrityError unless the store itself is
\* down -, no row inserted, no user returned and no second lookup.
C1_RaceLoserRaisesIntegrityError ==
    [][\A r \in Requests :
        (/\ pc[r] = "user_create"
         /\ Stepped(r)
         /\ \E u \in users : u.username = local[r].user_id)
        => /\ pc'[r] = "done"
           /\ result'[r].kind = "raise"
           /\ result'[r].exc \in StoreErrors
           /\ store' = store]_vars

C1_Witness ==
    \E r, q \in Requests :
        /\ r # q
        /\ result[r] = Raise("IntegrityError", "uncaught")
        /\ IsIdentity(result[q])
        /\ \E u \in users : result[q].value.user = u

\* C2: no step leaves two User rows with one username, and no step changes
\* or removes a User row.
C2_UsernameUniqueRowsImmutable ==
    [][/\ \A u, v \in users' : u.username = v.username => u = v
       /\ users \subseteq users']_vars

\* a row created from the 404 fallback stays as it is although the provider
\* has answered with data since, and a second insert was rejected
C2_Witness ==
    \E u \in users, r \in Requests :
        /\ u.email = ""
        /\ Truthy(cache[UserInfoKey(u.username)])
        /\ result[r] = Raise("IntegrityError", "uncaught")

\* C3: every User row whose creating request is no longer between its
\* creates has exactly one Profile row and exactly one UserActivity row.
C3_OneProfileOneActivity ==
    \A u \in users :
        (~\E r \in Requests :
            pc[r] \in {"profile_create", "activity_create"} /\ local[r].user = u)
        => /\ Cardinality(Owned(profiles, u)) = 1
           /\ Cardinality(Owned(activities, u)) = 1

\* C4: a request enters provisioning only from a decode step whose token
\* verifies against the key set it holds and carries a subject; and only a
\* request in provisioning changes the store or returns an identity.
C4_OnlyVerifiedTokensProvision ==
    [][\A r \in Requests :
        Stepped(r) =>
            /\ (pc'[r] \in Provisioning /\ pc[r] \notin Provisioning)
                => /\ pc[r] = "decode"
                   /\ TokenVerifies(local[r].token, local[r].jwks_data)
                   /\ local[r].token.sub # NoSub
                   /\ local'[r].user_id = local[r].token.sub
            /\ (store' # store \/ IsIdentity(result'[r]))
                => pc[r] \in Provisioning]_vars

\* one request was rejected at the signature, another provisioned a user
C4_Witness ==
    \E r, q \in Requests :
        /\ result[r] = AuthenticationFailed("Token decode error.")
        /\ IsIdentity(result[q])
        /\ result[q].value.user \in users
        /\ Owned(profiles, result[q].value.user) # {}
        /\ Owned(activities, result[q].value.user) # {}

\* C5: a request whose header carried a token ends by returning or by
\* raising AuthenticationFailed, never with another exception.
C5_OnlyAuthenticationFailedEscapes ==
    \A r \in Requests :
        pc[r] = "done"
            => result[r].kind = "return" \/ result[r].exc = "AuthenticationFailed"

C7_CacheHitMakesNoJwksCall ==
    /\ [][\A r \in Requests :
            (/\ pc[r] = "idle"
             /\ pc'[r] \notin {"idle", "done"}
             /\ cache[CACHE_KEY] # None)
            => /\ pc'[r] = "decode"
               /\ local'[r].jwks_data = cache[CACHE_KEY]
               /\ cache' = cache]_vars
    /\ [](\A r \in Requests : pc[r] = "jwks_fetch" => local[r].jwks_data = None)
    /\ [][cache[CACHE_KEY] # None => cache'[CACHE_KEY] # None]_vars

\* one request has gone through with the key set, another holds the cached
\* key set and is about to decode
C7_Witness ==
    \E r, q \in Requests :
        /\ r # q
        /\ pc[q] = "done"
        /\ IsIdentity(result[q])
        /\ pc[r] = "decode"
        /\ local[r].jwks_data = cache[CACHE_KEY]

\* C8: a request that created its User after a 200 answer of the provider and
\* returns it, returns the one row of that username, whose e-mail is the
\* first address of the answer and whose names are the answer's, with
\* exactly one Profile row and one UserActivity row.
C8_ProvisionedFromProviderAnswer ==
    [][\A r \in Requests :
        (/\ pc[r] = "activity_create"
         /\ Stepped(r)
         /\ IsIdentity(result'[r])
         /\ local[r].response # None
         /\ local[r].response.status_code = 200)
        => LET d == local[r].response.json
               u == result'[r].value.user
           IN  /\ u.username = local[r].user_id
               /\ u.email = d.email_addresses[1].email_address
               /\ u.first_name = d.first_name
               /\ u.last_name = d.last_name
               /\ {v \in users' : v.username = u.username} = {u}
               /\ Cardinality(Owned(profiles', u)) = 1
               /\ Cardinality(Owned(activities', u)) = 1]_vars

C8_Witness ==
    \E r \in Requests :
        /\ IsIdentity(result[r])
        /\ result[r].value.user.email = "a@b.com"
        /\ result[r].value.user.first_name = "A"
        /\ result[r].value.user \in users
        /\ Cardinality(Owned(profiles, result[r].value.user)) = 1
        /\ Cardinality(Owned(activities, result[r].value.user)) = 1

\* C9 (requests run one after the other): the lookup of a request whose
\* subject another request has already returned a User for ends the request
\* with that same User, and changes nothing in the store.
C9_SecondCallReturnsSameUser ==
    [][\A r, q \in Requests :
        (/\ r # q
         /\ pc[q] = "done"
         /\ IsIdentity(result[q])
         /\ pc[r] = "user_get"
         /\ Stepped(r)
         /\ result[q].value.user.username = local[r].user_id)
        => /\ result'[r] = result[q]
           /\ store' = store]_vars

C9_Witness ==
    \E r, q \in Requests :
        /\ r # q
        /\ IsIdentity(result[r])
        /\ result[q] = result[r]
        /\ Cardinality(users) = 1
        /\ Cardinality(profiles) = 1
        /\ Cardinality(activities) = 1

\* the User row a request builds from the fallback record
FallbackRow(u, username) ==
    /\ u.username = username
    /\ u.first_name = ""
    /\ u.last_name = ""
    /\ u.email = ""

\* C10: a non-200 answer of the provider sends the request on to the create
\* calls; the User it inserts has empty names and e-mail; and the request
\* ends by returning that User, with one Profile and one UserActivity, unless
\* a create call is refused by the store - never with AuthenticationFailed.
C10_ProviderFailureStillProvisions ==
    [][\A r \in Requests :
        /\ (/\ pc[r] = "info_fetch"
            /\ Stepped(r)
            /\ local'[r].response # None
            /\ local'[r].response.status_code # 200)
           => pc'[r] = "user_create"
        /\ (/\ pc[r] \in {"user_create", "profile_create", "activity_create"}
            /\ Stepped(r)
            /\ local[r].response # None
            /\ local[r].response.status_code # 200)
           => \/ /\ pc'[r] = "done"
                 /\ result'[r].kind = "raise"
                 /\ result'[r].exc \in StoreErrors
              \/ /\ pc'[r] \in {"profile_create", "activity_create"}
                 /\ FallbackRow(local'[r].user, local[r].user_id)
                 /\ local'[r].user \in users'
              \/ /\ pc'[r] = "done"
                 /\ result'[r] = Return(Identity(local[r].user))
                 /\ FallbackRow(local[r].user, local[r].user_id)
                 /\ local[r].user \in users'
                 /\ Cardinality(Owned(profiles', local[r].user)) = 1
                 /\ Cardinality(Owned(activities', local[r].user)) = 1]_vars

C10_Witness ==
    \E r \in Requests :
        /\ IsIdentity(result[r])
        /\ result[r].value.user \in users
        /\ result[r].value.user.email = ""
        /\ result[r].value.user.first_name = ""
        /\ result[r].value.user.last_name = ""
        /\ Cardinality(Owned(profiles, result[r].value.user)) = 1
        /\ Cardinality(Owned(activities, result[r].value.user)) = 1

\* C11: a request whose JWKS fetch does not yield a key set ends there with
\* AuthenticationFailed("Failed to fetch JWKS."), whatever its token is: the
\* cache and the store are left as they were (a cache nobody else has filled
\* stays without a key set), and the request never reaches the decoding of
\* the token, the user lookup or a create. A fetch that goes on to decode
\* has stored the key set it decodes with.
C11_JwksFetchFailureEndsRequest ==
    [][\A r \in Requests :
        (pc[r] = "jwks_fetch" /\ Stepped(r))
        => /\ local[r].token \in Tokens
           /\ \/ /\ pc'[r] = "done"
                 /\ result'[r] = AuthenticationFailed("Failed to fetch JWKS.")
                 /\ cache' = cache
                 /\ store' = store
                 /\ (\A q \in Requests \ {r} : pc[q] = "idle")
                        => cache'[CACHE_KEY] = None
              \/ /\ pc'[r] = "decode"
                 /\ local'[r].jwks_data \in KeySets
                 /\ cache'[CACHE_KEY] = local'[r].jwks_data]_vars

\* a request has failed on the JWKS fetch while nothing is cached and no
\* user exists
C11_Witness ==
    \E r \in Requests :
        /\ result[r] = AuthenticationFailed("Failed to fetch JWKS.")
        /\ cache[CACHE_KEY] = None
        /\ users = {}

\* C12: a request that carries no Authorization header ends at its first
\* step with the return value None, in every state of the cache and of the
\* store the other requests have left, and that step raises nothing and
\* touches neither the cache nor the store.
C12_NoHeaderReturnsNone ==
    [][\A r \in Requests :
        (pc[r] = "idle" /\ Stepped(r) /\ local[r].auth_header = None)
        => /\ pc'[r] = "done"
           /\ result'[r] = Return(None)
           /\ cache' = cache
           /\ store' = store]_vars

\* a request has returned None although no key set was ever fetched, while
\* another request, without a header, has not begun
C12_Witness ==
    \E r, q \in Requests :
        /\ r # q
        /\ result[r] = Return(None)
        /\ cache[CACHE_KEY] = None
        /\ pc[q] = "idle"
        /\ local[q].auth_header = None

\* C13 as stated: every header that is present and that split(" ") leaves
\* without a second piece ends the request with
\* AuthenticationFailed("Bearer token not provided."), the cache and the store
\* untouched.
C13_EveryShortHeaderRejected ==
    [][\A r \in Requests :
        (/\ pc[r] = "idle"
         /\ Stepped(r)
         /\ local[r].auth_header # None
         /\ Len(local[r].auth_header.split) < 2)
        => /\ pc'[r] = "done"
           /\ result'[r] = AuthenticationFailed("Bearer token not provided.")
           /\ cache' = cache
           /\ store' = store]_vars

\* C13, amended: every header of a non-empty value that split(" ") leaves
\* without a second piece ends the request at its first step with
\* AuthenticationFailed("Bearer token not provided."), before any key-set
\* fetch, decoding or store access; a header whose value is the empty string
\* ends it with the return value None, as a missing header does.
C13_NonEmptyShortHeaderRejected ==
    [][\A r \in Requests :
        (/\ pc[r] = "idle"
         /\ Stepped(r)
         /\ local[r].auth_header # None
         /\ Len(local[r].auth_header.split) < 2)
        => /\ pc'[r] = "done"
           /\ result'[r] =
                IF local[r].auth_header.split = <<"">>
                    THEN Return(None)
                    ELSE AuthenticationFailed("Bearer token not provided.")
           /\ cache' = cache
           /\ store' = store]_vars

\* a request has been refused for its header while nothing is cached and the
\* store is empty
C13_Witness ==
    \E r \in Requests :
        /\ result[r] = AuthenticationFailed("Bearer token not provided.")
        /\ \A k \in CacheKeys : cache[k] = None
        /\ users = {}

\* C14: a well-formed token whose signing key is in the key set, but not as
\* its first entry, is rejected by the decode step with AuthenticationFailed:
\* no identity is returned, the request goes no further, and the store and the
\* cache are untouched.
C14_OnlyFirstKeyVerifies ==
    [][\A r \in Requests :
        (/\ pc[r] = "decode"
         /\ Stepped(r)
         /\ local[r].token.form = "jws"
         /\ local[r].token.sig # local[r].jwks_data.keys[1]
         /\ \E i \in 2..Len(local[r].jwks_data.keys) :
                local[r].jwks_data.keys[i] = local[r].token.sig)
        => /\ pc'[r] = "done"
           /\ result'[r] \in {AuthenticationFailed("Token decode error."),
                              AuthenticationFailed("Invalid token.")}
           /\ store' = store
           /\ cache' = cache]_vars

\* the only request that has run got the key set with the signing key in
\* second place and was refused on decoding, nothing being provisioned
C14_Witness ==
    \E r \in Requests :
        /\ result[r] = AuthenticationFailed("Token decode error.")
        /\ cache[CACHE_KEY] # None
        /\ cache[CACHE_KEY].keys[1] \notin SigningKeys
        /\ cache[CACHE_KEY].keys[2] \in SigningKeys
        /\ \A q \in Requests \ {r} : pc[q] = "idle"
        /\ users = {}

\* C15: the rows are created in the order User, Profile, UserActivity by the
\* request that created the User, and no row is ever taken back. A Profile
\* create that fails ends the request with the store's error, the User row
\* staying with no Profile and no UserActivity; a UserActivity create that
\* fails ends it with the store's error, the User and its one Profile staying
\* with no UserActivity.
C15_CreatesInOrderNoRollback ==
    [][/\ users \subseteq users'
       /\ profiles \subseteq profiles'
       /\ activities \subseteq activities'
       /\ profiles' # profiles
            => \E r \in Requests : pc[r] = "profile_create" /\ Stepped(r)
       /\ activities' # activities
            => \E r \in Requests : pc[r] = "activity_create" /\ Stepped(r)
       /\ \A r \in Requests :
            /\ (pc[r] = "user_create" /\ Stepped(r) /\ users' # users)
               => /\ pc'[r] = "profile_create"
                  /\ users' = users \cup {local'[r].user}
                  /\ Owned(profiles', local'[r].user) = {}
                  /\ Owned(activities', local'[r].user) = {}
            /\ (pc[r] = "profile_create" /\ Stepped(r))
               => /\ local[r].user \in users'
                  /\ Owned(activities', local[r].user) = {}
                  /\ IF profiles' = profiles
                        THEN /\ pc'[r] = "done"
                             /\ result'[r] = Raise("OperationalError", "uncaught")
                             /\ Owned(profiles', local[r].user) = {}
                        ELSE /\ pc'[r] = "activity_create"
                             /\ Cardinality(Owned(profiles', local[r].user)) = 1
            /\ (pc[r] = "activity_create" /\ Stepped(r))
               => /\ local[r].user \in users'
                  /\ Cardinality(Owned(profiles', local[r].user)) = 1
                  /\ pc'[r] = "done"
                  /\ IF activities' = activities
                        THEN /\ result'[r] = Raise("OperationalError", "uncaught")
                             /\ Owned(activities', local[r].user) = {}
                        ELSE Cardinality(Owned(activities', local[r].user)) = 1
      ]_vars

\* both failures have happened: every request has ended, one User is left
\* with no Profile and no UserActivity, another with its Profile and no
\* UserActivity
C15_Witness ==
    /\ \A r \in Requests :
        pc[r] = "done" /\ result[r] = Raise("OperationalError", "uncaught")
    /\ \E u, v \in users :
        /\ Owned(profiles, u) = {}
        /\ Owned(activities, u) = {}
        /\ Cardinality(Owned(profiles, v)) = 1
        /\ Owned(activities, v) = {}

\* C16: a lookup step that finds a User of the verified subject ends the
\* request with that User as the identity; the step does not enter
\* fetch_user_info, and it leaves the cache (no user-info entry read into the
\* frame, none written) and the three tables as they were.
C16_FoundUserReturnedUntouched ==
    [][\A r \in Requests :
        (/\ pc[r] = "user_get"
         /\ Stepped(r)
         /\ \E u \in users : u.username = local[r].user_id)
        => /\ pc'[r] = "done"
           /\ IsIdentity(result'[r])
           /\ result'[r].value.user \in users
           /\ result'[r].value.user.username = local[r].user_id
           /\ local[r].info = None
           /\ local[r].response = None
           /\ cache' = cache
           /\ store' = store]_vars

\* two requests have returned the same User, the provider's user-info answer
\* having been cached by neither: the User was created from the fallback and
\* the request that found it fetched nothing
C16_Witness ==
    \E r, q \in Requests :
        /\ r # q
        /\ IsIdentity(result[r])
        /\ result[q] = result[r]
        /\ cache[UserInfoKey(result[r].value.user.username)] = None

\* C17: a fetch_user_info that finds user_info_{user_id} in the cache returns
\* the info of the cached body with success = true, without the HTTP step
\* and without a cache write; one that missed writes nothing but the body of
\* a 200 answer under that key, and on any other status returns the
\* zero-valued record with success = false, raising nothing and leaving the
\* cache as it was.
C17_FetchUserInfoContract ==
    [][\A r \in Requests :
        /\ (/\ pc[r] = "fetch_user_info"
            /\ Stepped(r)
            /\ cache[UserInfoKey(local[r].user_id)] # None)
           => /\ pc'[r] = "user_create"
              /\ local'[r].found
              /\ local'[r].response = None
              /\ cache' = cache
              /\ LET d == cache[UserInfoKey(local[r].user_id)]
                 IN  /\ local'[r].info.email_address =
                            d.email_addresses[1].email_address
                     /\ local'[r].info.first_name = d.first_name
                     /\ local'[r].info.last_name = d.last_name
        /\ (pc[r] = "info_fetch" /\ Stepped(r))
           => /\ \A k \in CacheKeys \ {UserInfoKey(local[r].user_id)} :
                    cache'[k] = cache[k]
              /\ pc'[r] = "done"
                    => cache'[UserInfoKey(local[r].user_id)] \in UserInfoData
              /\ pc'[r] # "done"
                    => /\ pc'[r] = "user_create"
                       /\ IF local'[r].response.status_code = 200
                            THEN /\ cache'[UserInfoKey(local[r].user_id)] =
                                        local'[r].response.json
                                 /\ local'[r].found
                            ELSE /\ cache' = cache
                                 /\ ~local'[r].found
                                 /\ local'[r].info =
                                        [email_address |-> "", first_name |-> "",
                                         last_name |-> "", last_login |-> None]
      ]_vars

\* C18: a decode step on a token that verifies against the first key of the
\* key set and whose payload has no subject ends the request with the return
\* value None: the request never reaches the lookup, fetch_user_info or a
\* create, and the step leaves the cache and the store as they were.
C18_NoSubjectIsAnonymous ==
    [][\A r \in Requests :
        (/\ pc[r] = "decode"
         /\ Stepped(r)
         /\ TokenVerifies(local[r].token, local[r].jwks_data)
         /\ local[r].token.sub = NoSub)
        => /\ pc'[r] = "done"
           /\ result'[r] = Return(None)
           /\ cache' = cache
           /\ store' = store]_vars

\* the only request that has run fetched a key set and returned None: its
\* token verified and carried no subject; nothing was provisioned
C18_Witness ==
    \E r \in Requests :
        /\ result[r] = Return(None)
        /\ cache[CACHE_KEY] # None
        /\ \A q \in Requests \ {r} : pc[q] = "idle"
        /\ users = {}
        /\ \A s \in Subjects : cache[UserInfoKey(s)] = None

\* C19: at the step by which a request returns a User as its identity, that
\* User has exactly one Profile row and exactly one UserActivity row,
\* whatever the other requests are doing; stated here for the runs in which
\* no request has raised, so that no create has failed.
C19_ReturnedUserHasBothRows ==
    [][\A r \in Requests :
        (/\ Stepped(r)
         /\ IsIdentity(result'[r])
         /\ \A q \in Requests : result[q].kind # "raise")
        => /\ Cardinality(Owned(profiles', result'[r].value.user)) = 1
           /\ Cardinality(Owned(activities', result'[r].value.user)) = 1]_vars

\* C20 as stated: a key set that is in the cache is never replaced by
\* another, and every get_jwks that returns while a key set is cached returns
\* that key set.
C20_FirstKeySetStays ==
    [][/\ cache[CACHE_KEY] # None => cache'[CACHE_KEY] = cache[CACHE_KEY]
       /\ \A r \in Requests :
            (Stepped(r) /\ pc'[r] = "decode" /\ cache[CACHE_KEY] # None)
            => local'[r].jwks_data = cache[CACHE_KEY]]_vars

\* C20, amended: a cached key set is never removed, and it is replaced only
\* by the HTTP step of a request whose own cache read had missed: that
\* request stores the key set it fetched, the last writer winning. Every
\* get_jwks returns the key set the cache holds at the moment it returns,
\* read or just stored.
C20_OnlyMissedCallsOverwrite ==
    [][/\ cache[CACHE_KEY] # None => cache'[CACHE_KEY] # None
       /\ cache'[CACHE_KEY] # cache[CACHE_KEY]
            => \E r \in Requests :
                /\ pc[r] = "jwks_fetch"
                /\ local[r].jwks_data = None
                /\ pc'[r] = "decode"
                /\ cache'[CACHE_KEY] = local'[r].jwks_data
       /\ \A r \in Requests :
            (Stepped(r) /\ pc'[r] = "decode")
            => /\ local'[r].jwks_data \in KeySets
               /\ local'[r].jwks_data = cache'[CACHE_KEY]]_vars

\* the cached key set has been replaced: a request that has got its key set
\* and not yet decoded holds another one than the cache does now
C20_Witness ==
    \E r \in Requests :
        /\ pc[r] = "decode"
        /\ cache[CACHE_KEY] # None
        /\ local[r].jwks_data # None
        /\ local[r].jwks_data # cache[CACHE_KEY]

====
